---- MODULE Spec2Model ----
(***************************************************************************)
(* ROC curve and AUC as computed by the notebook src/index.ipynb:          *)
(*                                                                         *)
(*     fpr, tpr, thresholds = roc_curve(y_test, y_score)     (line 119)    *)
(*     print('AUC: {}'.format(auc(fpr, tpr)))                (line 135)    *)
(*                                                                         *)
(* roc_curve and auc are scikit-learn's (imported at line 104), called     *)
(* with their defaults: pos_label=None, sample_weight=None,                *)
(* drop_intermediate=True.  The model follows what those two calls do:     *)
(* input validation, the stable descending sort, the cumulative counts at  *)
(* the distinct score values, the dropping of collinear intermediate       *)
(* points, the added origin, the division into rates, and the trapezoidal  *)
(* rule.                                                                   *)
(*                                                                         *)
(* The notebook pins no scikit-learn release (its kernel is Python 3.6.4,  *)
(* line 243), and the releases differ at the head of the curve:            *)
(*   0.19       the origin is added only when fps[0] != 0, at threshold    *)
(*              max(y_score) + 1;                                          *)
(*   0.20-1.2   the origin is always added, at max(y_score) + 1;           *)
(*   1.3 on     the origin is always added, at np.inf.                     *)
(* The release is a choice made before the run starts.                     *)
(*                                                                         *)
(* Scores are doubles of which only the order, equality and (before 1.3)   *)
(* max + 1 are used.  A score is held as an integer k that stands for the  *)
(* double k, or for the double k * 2^53 when the scores are large: at that *)
(* size y + 1 rounds back to y.  Rates and areas are IEEE-754 doubles:     *)
(* every division, subtraction, addition and product is rounded to the     *)
(* nearest double, ties to even.                                           *)
(***************************************************************************)
EXTENDS Integers, Sequences, FiniteSets

VARIABLES release, magnitude, y_true, y_score, pc, fps, tps, thresholds, fpr, tpr, area, err, warned

vars == <<release, magnitude, y_true, y_score, pc, fps, tps, thresholds, fpr, tpr, area, err, warned>>

\* Longest input sequence explored.
MaxLen == 3
\* Scores are drawn from 1..MaxScore.
MaxScore == 3
\* The same two bounds for inputs that come ordered by descending score.
MaxLenSorted == 5
MaxScoreSorted == 3
\* And for inputs ordered by descending score and by descending label.
MaxLenSep == 7
MaxScoreSep == 4

\* y = df.target (line 68): 1 is the positive case, 0 the negative case.
LabelValues == {0, 1}
ScoreValues == 1..MaxScore

Releases == {"0.19", "0.20", "1.3"}

\* What a score k stands for: the double k ("small"), or k * 2^53 ("large").
Magnitudes == {"small", "large"}

SeqsUpTo(S, n) == UNION {[1..k -> S] : k \in 0..n}

Range(s) == {s[i] : i \in 1..Len(s)}

\* The sequence f, built once (a function expression is otherwise evaluated at
\* every application).
Tuple(f) == <<>> \o f

(***************************************************************************)
(* Exact rationals n/d in lowest terms, d > 0.                             *)
(***************************************************************************)
RECURSIVE GCD(_, _)
GCD(a, b) == IF b = 0 THEN a ELSE GCD(b, a % b)

Abs(a) == IF a < 0 THEN -a ELSE a

Q(n, d) ==
    LET g == GCD(Abs(n), d)
    IN  [n |-> n \div g, d |-> d \div g]

QInt(k) == [n |-> k, d |-> 1]
QAdd(x, y) == Q(x.n * y.d + y.n * x.d, x.d * y.d)
QSub(x, y) == Q(x.n * y.d - y.n * x.d, x.d * y.d)
QMul(x, y) == Q(x.n * y.n, x.d * y.d)
QNeg(x) == [n |-> -x.n, d |-> x.d]
QLess(x, y) == x.n * y.d < y.n * x.d
QLeq(x, y) == x.n * y.d <= y.n * x.d
QAbs(x) == [n |-> Abs(x.n), d |-> x.d]
QSign(x) == IF x.n > 0 THEN 1 ELSE IF x.n < 0 THEN -1 ELSE 0

RECURSIVE Pow2(_)
Pow2(k) == IF k = 0 THEN 1 ELSE 2 * Pow2(k - 1)

SqMod(h, m) == (h * h) % m

\* 2^k mod m, by repeated squaring.
RECURSIVE Pow2Mod(_, _)
Pow2Mod(k, m) ==
    IF k = 0 THEN 1 % m
    ELSE IF k % 2 = 0 THEN SqMod(Pow2Mod(k \div 2, m), m)
    ELSE (2 * Pow2Mod(k - 1, m)) % m

\* The e with 2^e <= n/d < 2^(e+1), for n, d > 0.
RECURSIVE ExponentOf(_, _)
ExponentOf(n, d) ==
    IF n < d THEN ExponentOf(2 * n, d) - 1
    ELSE IF n < 2 * d THEN 0
    ELSE ExponentOf(n, 2 * d) + 1

\* d is a power of two.
RECURSIVE Dyadic(_)
Dyadic(d) == d = 1 \/ (d % 2 = 0 /\ Dyadic(d \div 2))

(***************************************************************************)
(* IEEE-754 doubles.  A double x is held as a pair of exact rationals:     *)
(*     x = q + off * 2^-UnitBits                                           *)
(* where q is the value exact arithmetic would have given (a rational with *)
(* a small denominator) and off is the accumulated rounding error, counted *)
(* in units of 2^-UnitBits.  Every double the computation meets is a       *)
(* multiple of that unit, and no two values of q are closer than the       *)
(* rounding errors are large, so the pair is unique and equality of        *)
(* doubles is equality of pairs.  (The mantissa itself, 53 bits, does not  *)
(* fit the integers of the checker.)                                       *)
(***************************************************************************)
UnitBits == 62

\* One unit in the last place of 1.0, 2^-52, in units of 2^-UnitBits.
Ulp == Pow2(UnitBits - 52)

NaN == [nan |-> TRUE, q |-> QInt(0), off |-> QInt(0)]

Double(q, off) == [nan |-> FALSE, q |-> q, off |-> off]

\* The doubles of a binade are the multiples of its grid step, G units.  The
\* value to round lies M + s/d + (on/od)/G steps up, M an integer, s = t % d,
\* and M is odd when t >= d.  Pick the nearest step, on a tie the even one
\* (sig is the sign of a remainder too small to count except on a tie), and
\* return the offset of that double from n/d, in units.
RoundOnGrid(d, G, t, on, od, sig) ==
    LET s == t % d
        FN == s * od * G + on * d
        FD == d * od * G
        fl == FN \div FD
        twice == 2 * (FN % FD)
        R == IF twice < FD THEN fl
             ELSE IF twice > FD THEN fl + 1
             ELSE IF sig > 0 THEN fl + 1
             ELSE IF sig < 0 THEN fl
             ELSE IF (t >= d) # (fl % 2 = 1) THEN fl + 1 ELSE fl
    IN  Q((R * d - s) * G, d)

\* In the binade [2^e, 2^(e+1)) the grid step is 2^(e-52), and
\* (n/d) * 2^(52-e) = M + s/d with t = (n * 2^(52-e)) mod 2d.
RoundInBinade(n, d, on, od, sig, e) ==
    RoundOnGrid(d, Pow2(UnitBits - 52 + e), (n * Pow2Mod(52 - e, 2 * d)) % (2 * d),
                on, od, sig)

\* n/d is a power of two and the value to round lies below it, in the binade
\* underneath.
BelowPowerOfTwo(n, d, on, sig) ==
    Dyadic(n) /\ Dyadic(d) /\ (on < 0 \/ (on = 0 /\ sig < 0))

\* The rounding error of n/d + (on/od) * 2^-UnitBits, n, d > 0.
RoundPos(n, d, on, od, sig) ==
    RoundInBinade(n, d, on, od, sig,
                  ExponentOf(n, d) - (IF BelowPowerOfTwo(n, d, on, sig) THEN 1 ELSE 0))

\* -1 for x < 0, else 1.
Sgn(x) == IF x < 0 THEN -1 ELSE 1

QTimes(k, x) == [n |-> k * x.n, d |-> x.d]

\* Round q + off * 2^-UnitBits to the nearest double, ties to even.  A value
\* with q = 0 is a few units itself and is a double already; so is a q that
\* is an integer of fewer than 32 bits over a power of two.  A negative value
\* rounds as its mirror image.
Round(q, off, sig) ==
    IF q.n = 0 \/ (off.n = 0 /\ Dyadic(q.d)) THEN Double(q, off)
    ELSE Double(q, QTimes(Sgn(q.n),
                          RoundPos(Sgn(q.n) * q.n, q.d, Sgn(q.n) * off.n, off.d,
                                   Sgn(q.n) * sig)))

\* float(a) / float(b) for integers a and b > 0.
Frac(a, b) == Round(Q(a, b), QInt(0), 0)

Zero == Double(QInt(0), QInt(0))
One == Double(QInt(1), QInt(0))
Half == Double(Q(1, 2), QInt(0))

IsNaN(r) == r.nan

FAdd(a, b) == IF a.nan \/ b.nan THEN NaN
              ELSE Round(QAdd(a.q, b.q), QAdd(a.off, b.off), 0)
FSub(a, b) == IF a.nan \/ b.nan THEN NaN
              ELSE Round(QSub(a.q, b.q), QSub(a.off, b.off), 0)
FMul(a, b) == IF a.nan \/ b.nan THEN NaN
              ELSE Round(QMul(a.q, b.q),
                         QAdd(QMul(a.q, b.off), QMul(b.q, a.off)),
                         QSign(a.off) * QSign(b.off))
\* Comparisons with NaN are false.
FLess(a, b) ==
    ~a.nan /\ ~b.nan /\ (QLess(a.q, b.q) \/ (a.q = b.q /\ QLess(a.off, b.off)))
FLeq(a, b) ==
    ~a.nan /\ ~b.nan /\ (QLess(a.q, b.q) \/ (a.q = b.q /\ QLeq(a.off, b.off)))

\* A value not yet assigned.
Unset == [nan |-> FALSE, q |-> [n |-> 0, d |-> 0], off |-> QInt(0)]

(***************************************************************************)
(* Thresholds: a score-like number, or +infinity.                          *)
(***************************************************************************)
Inf == [inf |-> TRUE, v |-> 0]
Fin(s) == [inf |-> FALSE, v |-> s]
ThrGreater(a, b) == ~b.inf /\ (a.inf \/ a.v > b.v)

(***************************************************************************)
(* Input validation of _binary_clf_curve.                                  *)
(***************************************************************************)
\* type_of_target: at most two distinct values is "binary" (so is []).
TypeOfTarget(y) == IF Cardinality(Range(y)) <= 2 THEN "binary" ELSE "multiclass"

\* Variant: only too few labels are refused.
CheckConsistentLengthNoShort(a, b) == Len(a) >= Len(b)

\* check_consistent_length: TRUE when the check passes.
CheckConsistentLength(a, b) == Len(a) = Len(b)

\* With pos_label=None the classes must be {0,1}, {-1,1}, {0}, {-1} or {1}.
PosLabelConsistent(y) == Range(y) \in {{0, 1}, {-1, 1}, {0}, {-1}, {1}}

PosLabel == 1

InputAccepted(yt, ys) ==
    /\ TypeOfTarget(yt) = "binary"
    /\ CheckConsistentLength(yt, ys)
    /\ PosLabelConsistent(yt)

(***************************************************************************)
(* _binary_clf_curve: sort, distinct values, cumulative counts.            *)
(***************************************************************************)
\* np.argsort(y_score, kind="mergesort"): stable, ascending.
ArgSortStable(ys) ==
    LET n == Len(ys)
        rank(i) == Cardinality({j \in 1..n : ys[j] < ys[i] \/ (ys[j] = ys[i] /\ j < i)}) + 1
    IN  Tuple([k \in 1..n |-> CHOOSE i \in 1..n : rank(i) = k])

\* Variant: the reversal forgotten.
AscScoreIndices(ys) == ArgSortStable(ys)

\* desc_score_indices = np.argsort(y_score, kind="mergesort")[::-1]
DescScoreIndices(ys) ==
    LET a == ArgSortStable(ys)
        n == Len(ys)
    IN  Tuple([k \in 1..n |-> a[n + 1 - k]])

\* The elements of a set of integers, ascending.
SortedSeq(S) ==
    LET rank(x) == Cardinality({z \in S : z < x}) + 1
    IN  Tuple([k \in 1..Cardinality(S) |-> CHOOSE x \in S : rank(x) = k])

\* Variant: one threshold per observation, ties not batched.
ThresholdIdxsEvery(sc) == Tuple([k \in 1..Len(sc) |-> k])

\* Variant: scores count as distinct only when more than 1 apart.
ThresholdIdxsGap(sc) ==
    SortedSeq({k \in 1..(Len(sc) - 1) : sc[k] - sc[k + 1] > 1} \cup {Len(sc)})

\* np.where(np.diff(y_score))[0] followed by y_true.size - 1 (1-based here):
\* the last position of every run of equal scores.  (The difference of two
\* doubles is zero only when they are equal.)
ThresholdIdxs(sc) ==
    SortedSeq({k \in 1..(Len(sc) - 1) : sc[k + 1] # sc[k]} \cup {Len(sc)})

\* Variant: the count stops one observation early.
CumSumExclusive(b, k) == Cardinality({j \in 1..(k - 1) : b[j]})

\* stable_cumsum(y_true)[k]
CumSum(b, k) == Cardinality({j \in 1..k : b[j]})

BinaryClfCurve(yt, ys) ==
    LET n == Len(ys)
        d == DescScoreIndices(ys)
        sc == Tuple([k \in 1..n |-> ys[d[k]]])
        tr == Tuple([k \in 1..n |-> yt[d[k]] = PosLabel])
        ix == ThresholdIdxs(sc)
        tp == Tuple([j \in 1..Len(ix) |-> CumSum(tr, ix[j])])
    IN  [fps |-> Tuple([j \in 1..Len(ix) |-> ix[j] - tp[j]]),
         tps |-> tp,
         thresholds |-> Tuple([j \in 1..Len(ix) |-> Fin(sc[ix[j]])])]

(***************************************************************************)
(* roc_curve after _binary_clf_curve.                                      *)
(***************************************************************************)
Diff2(x, i) == x[i + 1] - 2 * x[i] + x[i - 1]

Pick(x, ix) == Tuple([j \in 1..Len(ix) |-> x[ix[j]]])

\* drop_intermediate: keep the ends and every corner of the curve.
DropIntermediate(c) ==
    IF Len(c.fps) > 2
    THEN LET L == Len(c.fps)
             optimal_idxs ==
                 SortedSeq({1, L} \cup
                           {i \in 2..(L - 1) : Diff2(c.fps, i) # 0 \/ Diff2(c.tps, i) # 0})
         IN  [fps |-> Pick(c.fps, optimal_idxs),
              tps |-> Pick(c.tps, optimal_idxs),
              thresholds |-> Pick(c.thresholds, optimal_idxs)]
    ELSE c

\* y + 1 in doubles: from 2^53 on the sum rounds back to y.
PlusOne(mag, v) == IF mag = "large" THEN v ELSE v + 1

\* The threshold of the added origin: np.inf from 1.3 on, thresholds[0] + 1
\* before.
FirstThreshold(rel, mag, c) ==
    IF rel = "1.3" THEN Inf ELSE Fin(PlusOne(mag, c.thresholds[1].v))

WithOrigin(rel, mag, c) ==
    [fps |-> <<0>> \o c.fps,
     tps |-> <<0>> \o c.tps,
     thresholds |-> <<FirstThreshold(rel, mag, c)>> \o c.thresholds]

\* Variant: the origin is added only when fps[0] != 0, in every release.
AddOriginIfFalsePositive(rel, mag, c) ==
    IF c.fps[1] = 0 THEN c ELSE WithOrigin(rel, mag, c)

\* The extra threshold position that makes the curve start at (0, 0).  Release
\* 0.19 adds it only "if necessary": when fps[0] != 0.
AddOrigin(rel, mag, c) ==
    IF rel = "0.19" /\ c.fps[1] = 0 THEN c ELSE WithOrigin(rel, mag, c)

\* fps / fps[-1], or all NaN (with a warning) when fps[-1] <= 0.
Rates(x) ==
    IF x[Len(x)] <= 0
    THEN Tuple([i \in 1..Len(x) |-> NaN])
    ELSE Tuple([i \in 1..Len(x) |-> Frac(x[i], x[Len(x)])])

Warnings(c) ==
    (IF c.fps[Len(c.fps)] <= 0 THEN {"No negative samples in y_true"} ELSE {})
    \cup
    (IF c.tps[Len(c.tps)] <= 0 THEN {"No positive samples in y_true"} ELSE {})

\* roc_curve(y_true, y_score) of release rel, for accepted input.
RocCurve(rel, mag, yt, ys) ==
    LET c == AddOrigin(rel, mag, DropIntermediate(BinaryClfCurve(yt, ys)))
    IN  [fpr |-> Rates(c.fps), tpr |-> Rates(c.tps), thresholds |-> c.thresholds]

(***************************************************************************)
(* auc(x, y)                                                               *)
(***************************************************************************)
\* res = 0.; res += f[1]; ...; res += f[k]
RECURSIVE SumTo(_, _)
SumTo(f, k) == IF k = 0 THEN Zero ELSE FAdd(SumTo(f, k - 1), f[k])

\* res += f[i] for i = from..Len(f)
RECURSIVE AddRest(_, _, _)
AddRest(res, f, from) ==
    IF from > Len(f) THEN res ELSE AddRest(FAdd(res, f[from]), f, from + 1)

\* Eight running sums r[j] = f[j] + f[j + 8] + f[j + 16] + ... over the first
\* full blocks of eight.
RECURSIVE Lane(_, _, _)
Lane(f, j, full) ==
    IF j + 8 > full THEN f[j] ELSE FAdd(Lane(SubSeq(f, 1, full - 8), j, full - 8), f[full - 8 + j])

\* ((r[1] + r[2]) + (r[3] + r[4])) + ((r[5] + r[6]) + (r[7] + r[8]))
AddPairs(r) ==
    FAdd(FAdd(FAdd(r[1], r[2]), FAdd(r[3], r[4])),
         FAdd(FAdd(r[5], r[6]), FAdd(r[7], r[8])))

\* .sum() of a contiguous array of doubles (numpy's pairwise summation):
\* fewer than 8 terms are added left to right; up to 128 terms go through
\* eight running sums that are then added in pairs; longer arrays are halved.
RECURSIVE Sum(_)
Sum(f) ==
    IF Len(f) < 8 THEN SumTo(f, Len(f))
    ELSE IF Len(f) <= 128
    THEN AddRest(AddPairs([j \in 1..8 |-> Lane(f, j, Len(f) - (Len(f) % 8))]),
                 f, Len(f) - (Len(f) % 8) + 1)
    ELSE FAdd(Sum(SubSeq(f, 1, (Len(f) \div 2) - ((Len(f) \div 2) % 8))),
              Sum(SubSeq(f, (Len(f) \div 2) - ((Len(f) \div 2) % 8) + 1, Len(f))))

\* Variant: left rectangles.
TrapzLeft(x, y) ==
    Sum(Tuple([i \in 1..(Len(x) - 1) |-> FMul(FSub(x[i + 1], x[i]), y[i])]))

\* Variant: the division by two forgotten.
TrapzNoHalf(x, y) ==
    Sum(Tuple([i \in 1..(Len(x) - 1) |-> FMul(FSub(x[i + 1], x[i]), FAdd(y[i + 1], y[i]))]))

\* np.trapz(y, x) = (d * (y[1:] + y[:-1]) / 2.0).sum()
Trapz(x, y) ==
    Sum(Tuple([i \in 1..(Len(x) - 1) |->
                  FMul(FMul(FSub(x[i + 1], x[i]), FAdd(y[i + 1], y[i])), Half)]))

\* dx = np.diff(x); the direction of x, or an error when x goes both ways.
AnyDecrease(x) == \E i \in 1..(Len(x) - 1) : FLess(x[i + 1], x[i])
AllNonIncreasing(x) == \A i \in 1..(Len(x) - 1) : FLeq(x[i + 1], x[i])

\* auc raises ValueError: fewer than 2 points, or x neither way monotone.
AucRaises(x, y) ==
    \/ Len(x) # Len(y)
    \/ Len(x) < 2
    \/ (AnyDecrease(x) /\ ~AllNonIncreasing(x))

Auc(x, y) ==
    IF AnyDecrease(x) THEN FSub(Zero, Trapz(x, y)) ELSE Trapz(x, y)

(***************************************************************************)
(* One evaluation, step by step.                                           *)
(***************************************************************************)
Start ==
    /\ release \in Releases
    /\ magnitude \in Magnitudes
    /\ pc = "validate"
    /\ fps = <<>>
    /\ tps = <<>>
    /\ thresholds = <<>>
    /\ fpr = <<>>
    /\ tpr = <<>>
    /\ area = Unset
    /\ err = "none"
    /\ warned = {}

Init ==
    /\ y_true \in SeqsUpTo(LabelValues, MaxLen)
    /\ y_score \in SeqsUpTo(ScoreValues, MaxLen)
    /\ Start

NonIncreasing(s) == \A i \in 1..(Len(s) - 1) : s[i] >= s[i + 1]

\* Inputs of equal lengths that come ordered by descending score.
InitSorted ==
    /\ y_score \in {s \in SeqsUpTo(1..MaxScoreSorted, MaxLenSorted) : NonIncreasing(s)}
    /\ y_true \in [1..Len(y_score) -> LabelValues]
    /\ Start

\* Longer inputs of equal lengths, ordered by descending score and with the
\* positives first.
InitSep ==
    /\ y_score \in {s \in SeqsUpTo(1..MaxScoreSep, MaxLenSep) : NonIncreasing(s)}
    /\ y_true \in {s \in [1..Len(y_score) -> LabelValues] : NonIncreasing(s)}
    /\ Start

Cur == [fps |-> fps, tps |-> tps, thresholds |-> thresholds]

\* The checks at the head of _binary_clf_curve pass.
Validate ==
    /\ pc = "validate"
    /\ InputAccepted(y_true, y_score)
    /\ pc' = "curve"
    /\ UNCHANGED <<release, magnitude, y_true, y_score, fps, tps, thresholds, fpr, tpr, area, err, warned>>

\* One of them raises ValueError; nothing is assigned.
Reject ==
    /\ pc = "validate"
    /\ ~InputAccepted(y_true, y_score)
    /\ pc' = "error"
    /\ err' = "ValueError"
    /\ UNCHANGED <<release, magnitude, y_true, y_score, fps, tps, thresholds, fpr, tpr, area, warned>>

Curve ==
    /\ pc = "curve"
    /\ LET c == BinaryClfCurve(y_true, y_score)
       IN  /\ fps' = c.fps
           /\ tps' = c.tps
           /\ thresholds' = c.thresholds
    /\ pc' = "drop"
    /\ UNCHANGED <<release, magnitude, y_true, y_score, fpr, tpr, area, err, warned>>

Drop ==
    /\ pc = "drop"
    /\ LET c == DropIntermediate(Cur)
       IN  /\ fps' = c.fps
           /\ tps' = c.tps
           /\ thresholds' = c.thresholds
    /\ pc' = "origin"
    /\ UNCHANGED <<release, magnitude, y_true, y_score, fpr, tpr, area, err, warned>>

Origin ==
    /\ pc = "origin"
    /\ LET c == AddOrigin(release, magnitude, Cur)
       IN  /\ fps' = c.fps
           /\ tps' = c.tps
           /\ thresholds' = c.thresholds
    /\ pc' = "rates"
    /\ UNCHANGED <<release, magnitude, y_true, y_score, fpr, tpr, area, err, warned>>

\* roc_curve returns; fpr, tpr, thresholds are bound (line 119).
Normalize ==
    /\ pc = "rates"
    /\ fpr' = Rates(fps)
    /\ tpr' = Rates(tps)
    /\ warned' = Warnings(Cur)
    /\ pc' = "auc"
    /\ UNCHANGED <<release, magnitude, y_true, y_score, fps, tps, thresholds, area, err>>

\* auc(fpr, tpr) (line 135)
AucCell ==
    /\ pc = "auc"
    /\ IF AucRaises(fpr, tpr)
       THEN /\ err' = "ValueError"
            /\ pc' = "error"
            /\ area' = area
       ELSE /\ area' = Auc(fpr, tpr)
            /\ pc' = "done"
            /\ err' = err
    /\ UNCHANGED <<release, magnitude, y_true, y_score, fps, tps, thresholds, fpr, tpr, warned>>

Next ==
    \/ Validate
    \/ Reject
    \/ Curve
    \/ Drop
    \/ Origin
    \/ Normalize
    \/ AucCell

Spec == Init /\ [][Next]_vars

SpecSorted == InitSorted /\ [][Next]_vars

SpecSep == InitSep /\ [][Next]_vars

(***************************************************************************)
(* Vocabulary of the properties.                                           *)
(***************************************************************************)
N == Len(y_true)

\* Equal-length, non-empty, at least one positive and one negative label.
ValidInput ==
    /\ Len(y_true) = Len(y_score)
    /\ Len(y_true) > 0
    /\ 1 \in Range(y_true)
    /\ 0 \in Range(y_true)

\* Equal-length, non-empty, but only one class.
SingleClassInput ==
    /\ Len(y_true) = Len(y_score)
    /\ Len(y_true) > 0
    /\ Cardinality(Range(y_true)) = 1

\* Different lengths, or empty.
BadShape == Len(y_true) # Len(y_score) \/ Len(y_true) = 0

\* roc_curve has just returned its three arrays.
RocReturned == pc = "auc"

Positives == {i \in 1..N : y_true[i] = 1}
Negatives == {i \in 1..N : y_true[i] = 0}

DistinctScores == Range(y_score)
MinScore == CHOOSE s \in DistinctScores : \A z \in DistinctScores : s <= z
MaxScoreIn == CHOOSE s \in DistinctScores : \A z \in DistinctScores : s >= z

NPoints == Len(thresholds)

\* Observations of class c scored exactly s.
CountAt(s, c) == Cardinality({i \in 1..N : y_score[i] = s /\ y_true[i] = c})

\* The curve has the added first point: always from release 0.20 on, and on
\* 0.19 when a negative has the highest score.
HasOrigin == release # "0.19" \/ CountAt(MaxScoreIn, 0) > 0

\* The position of the first point that the sweep over the scores produced.
FirstSwept == IF HasOrigin THEN 2 ELSE 1

\* The threshold of the added first point when the highest score is top.
AddedThreshold(top) ==
    IF release = "1.3" THEN Inf
    ELSE IF magnitude = "large" THEN Fin(top) ELSE Fin(top + 1)

\* C1: for valid input the points are ordered by non-increasing threshold, fpr
\* and tpr are non-decreasing along that order, and every rate lies in [0, 1].
InvC1 ==
    (RocReturned /\ ValidInput) =>
        /\ Len(fpr) = NPoints
        /\ Len(tpr) = NPoints
        /\ \A i \in 1..(NPoints - 1) :
              /\ ~ThrGreater(thresholds[i + 1], thresholds[i])
              /\ FLeq(fpr[i], fpr[i + 1])
              /\ FLeq(tpr[i], tpr[i + 1])
        /\ \A i \in 1..NPoints :
              /\ FLeq(Zero, fpr[i]) /\ FLeq(fpr[i], One)
              /\ FLeq(Zero, tpr[i]) /\ FLeq(tpr[i], One)

\* A curve of at least three points that rises in both rates at one step (a
\* tie across the classes).
WitC1 ==
    /\ RocReturned /\ ValidInput
    /\ NPoints >= 3
    /\ \E i \in 1..(NPoints - 1) : FLess(fpr[i], fpr[i + 1]) /\ FLess(tpr[i], tpr[i + 1])

NextLower(s) ==
    CHOOSE z \in DistinctScores : z < s /\ \A w \in DistinctScores : w < s => w <= z

\* The distinct scores whose point is kept: the highest, the lowest, and every
\* other one at which the curve turns.
KeptScores ==
    {s \in DistinctScores :
        \/ s = MaxScoreIn
        \/ s = MinScore
        \/ CountAt(s, 1) # CountAt(NextLower(s), 1)
        \/ CountAt(s, 0) # CountAt(NextLower(s), 0)}

SweptThresholds == {thresholds[i] : i \in FirstSwept..NPoints}

NoDuplicateThreshold ==
    \A i, j \in 1..NPoints : i # j => thresholds[i] # thresholds[j]

AllTied == Cardinality(DistinctScores) = 1

TwoPointCurve ==
    /\ NPoints = 2
    /\ fpr = <<Zero, One>>
    /\ tpr = <<Zero, One>>

CexC4 ==
    SingleClassInput =>
        /\ ~RocReturned
        /\ \A i \in 1..Len(fpr) : ~IsNaN(fpr[i])
        /\ \A i \in 1..Len(tpr) : ~IsNaN(tpr[i])
        /\ ~IsNaN(area)

\* C5: different lengths or empty input end in an error raised by the checks
\* at the start: the run goes from the checks straight to the error, and no
\* count, threshold, rate or area is ever produced.
InvC5 ==
    BadShape =>
        /\ pc \in {"validate", "error"}
        /\ (pc = "error" => err = "ValueError")
        /\ fps = <<>> /\ tps = <<>> /\ thresholds = <<>>
        /\ fpr = <<>> /\ tpr = <<>>
        /\ area = Unset

\* More labels than scores, refused.
WitC5 ==
    /\ pc = "error"
    /\ err = "ValueError"
    /\ Len(y_true) > Len(y_score)
    /\ Len(y_score) > 0

\* auc(roc_curve(yt, ys)) for valid input, on the release and scores of the run.
AucOfRoc(yt, ys) == LET r == RocCurve(release, magnitude, yt, ys) IN Auc(r.fpr, r.tpr)

\* Every positive is scored strictly above every negative.
PerfectSeparation ==
    \A i \in Positives : \A j \in Negatives : y_score[i] > y_score[j]

\* Every negative is scored strictly above every positive.
InvertedSeparation ==
    \A i \in Positives : \A j \in Negatives : y_score[i] < y_score[j]

\* (n + 1) * 2^-50 in units of 2^-UnitBits, n the number of observations: four
\* units in the last place of 1.0 for each of the at most n + 1 points.
Tolerance == (N + 1) * 4 * Ulp

\* The double a lies within the tolerance of the rational q, which is the
\* value exact arithmetic gives.  (Distinct exact values are further apart
\* than that by many orders of magnitude.)
Close(a, q) ==
    /\ ~a.nan
    /\ a.q = q
    /\ QLeq(QAbs(a.off), QInt(Tolerance))

\* C6 as stated: for valid input with every positive scored strictly above
\* every negative, the area is exactly 1.
CexC6 ==
    (pc = "done" /\ ValidInput /\ PerfectSeparation) => area = One

\* C6 amended: for valid input with every positive scored strictly above every
\* negative, the area is 1 up to the rounding of the double arithmetic: it
\* differs from 1 by at most (n + 1) * 2^-50, n the number of observations,
\* and is not always 1.0 itself.
InvC6 ==
    (pc = "done" /\ ValidInput /\ PerfectSeparation) => Close(area, QInt(1))

\* A perfect separator whose area is not the double 1.0.
WitC6 ==
    /\ pc = "done" /\ ValidInput /\ PerfectSeparation
    /\ Cardinality(Negatives) >= 2
    /\ area # One

Flip(yt) == Tuple([i \in 1..Len(yt) |-> 1 - yt[i]])

TiedAcrossClasses ==
    \E i \in Positives : \E j \in Negatives : y_score[i] = y_score[j]

\* C7 as stated: for valid input, flipping every label and keeping the scores
\* turns the area into 1 - area, ties across the classes included.
CexC7 ==
    (pc = "done" /\ ValidInput) =>
        \A flipped \in {Flip(y_true)} :
            AucOfRoc(flipped, y_score) = FSub(One, area)

\* C7 amended: for valid input, flipping every label and keeping the scores
\* turns the area into 1 - area up to the rounding of the double arithmetic,
\* ties across the classes included: the two areas add up to 1 within
\* (n + 1) * 2^-50.
InvC7 ==
    (pc = "done" /\ ValidInput) =>
        \A flipped \in {Flip(y_true)} :
        \A a \in {AucOfRoc(flipped, y_score)} :
            /\ ~a.nan /\ ~area.nan
            /\ QAdd(a.q, area.q) = QInt(1)
            /\ QLeq(QAbs(QAdd(a.off, area.off)), QInt(Tolerance))

\* A tie across the classes, an area that is none of 0, 1/2, 1, and a flipped
\* area that is not the double 1 - area.
WitC7 ==
    /\ pc = "done" /\ ValidInput
    /\ TiedAcrossClasses
    /\ area.q \notin {QInt(0), Q(1, 2), QInt(1)}
    /\ AucOfRoc(Flip(y_true), y_score) # FSub(One, area)

\* Strictly increasing transforms of the scores: every strictly increasing map
\* of the score values into 1..MaxScore+1, the doubling s -> 2s and the square.
IncreasingMaps ==
    {f \in [ScoreValues -> 1..(MaxScore + 1)] :
        \A a, b \in ScoreValues : a < b => f[a] < f[b]}

Transforms ==
    IncreasingMaps
    \cup {[s \in ScoreValues |-> 2 * s]}
    \cup {[s \in ScoreValues |-> s * s]}

Apply(f, ys) == Tuple([i \in 1..Len(ys) |-> f[ys[i]]])

\* C8: for valid input and every strictly increasing transform f of the
\* scores, the curve of (labels, f(scores)) has the same fpr and tpr sequences
\* point by point, only its thresholds differ (those of the sweep are the
\* transformed ones), and its area is the same.
InvC8 ==
    (pc = "done" /\ ValidInput) =>
        \A f \in Transforms :
          \A mapped \in {Apply(f, y_score)} :
          \A r \in {RocCurve(release, magnitude, y_true, mapped)} :
                /\ r.fpr = fpr
                /\ r.tpr = tpr
                /\ Len(r.thresholds) = NPoints
                /\ HasOrigin => r.thresholds[1] = AddedThreshold(f[MaxScoreIn])
                /\ \A i \in FirstSwept..NPoints :
                      r.thresholds[i] = Fin(f[thresholds[i].v])
                /\ Auc(r.fpr, r.tpr) = area

\* Adjacent score values in a curve with an interior point, and a transform
\* that pulls them apart.
WitC8 ==
    /\ pc = "done" /\ ValidInput
    /\ NPoints >= 4
    /\ area \notin {Zero, One}
    /\ \E f \in Transforms : \E i \in 1..N : f[y_score[i]] # y_score[i]

CountGeq(t, c) == Cardinality({i \in 1..N : y_true[i] = c /\ y_score[i] >= t})

SwapAdjacent(x, k) ==
    Tuple([i \in 1..Len(x) |-> IF i = k THEN x[k + 1] ELSE IF i = k + 1 THEN x[k] ELSE x[i]])

RatesAreCounts(i) ==
    /\ tpr[i] = Frac(CountGeq(thresholds[i].v, 1), Cardinality(Positives))
    /\ fpr[i] = Frac(CountGeq(thresholds[i].v, 0), Cardinality(Negatives))

OrderIndependent ==
    \A k \in 1..(N - 1) :
        \A yt \in {SwapAdjacent(y_true, k)} :
        \A ys \in {SwapAdjacent(y_score, k)} :
            RocCurve(release, magnitude, yt, ys)
                = [fpr |-> fpr, tpr |-> tpr, thresholds |-> thresholds]

Wins == Cardinality({p \in Positives \X Negatives : y_score[p[1]] > y_score[p[2]]})
Ties == Cardinality({p \in Positives \X Negatives : y_score[p[1]] = y_score[p[2]]})
Losses == Cardinality({p \in Positives \X Negatives : y_score[p[1]] < y_score[p[2]]})

\* (wins + ties / 2) / (positives * negatives), exactly.
RankStatistic == Q(2 * Wins + Ties, 2 * Cardinality(Positives) * Cardinality(Negatives))

====
